---- MODULE Spec2Model ----
(***************************************************************************)
(* The cloud storage self-test engine, cluster::self_test::cloudcheck      *)
(* (src/src/v/cluster/self_test/cloudcheck.cc), as a state machine.        *)
(*                                                                         *)
(* The engine runs on one seastar shard: code between two co_await points  *)
(* is atomic, and a co_await may yield to any other task (need_preempt),   *)
(* so every co_await is a step boundary.  The calls run(), cancel() and    *)
(* stop() arrive from other tasks at any step boundary.  The storage       *)
(* client (cloud_storage::remote) and the configuration are collaborators: *)
(* what they return is drawn from the sets below.                          *)
(***************************************************************************)
EXTENDS Naturals, Sequences, FiniteSets

\* ------------------------------------------------------------- bounds
\* Number of run() calls made on the engine instance in one behaviour.
MaxRuns == 2
\* Number of storage-client calls in one behaviour that do not answer as a
\* healthy store would (a failure, an exception, a stale listing, corrupted
\* bytes).
MaxFaults == 2
\* Number of cancel() calls in one behaviour.
MaxCancels == 1

Runs == 1 .. MaxRuns

\* ------------------------------------------------------------- values
NoMsg == "none"
GateClosedMsg == "cloudcheck - gate already closed"
NotEnabledMsg == "Cloud storage is not enabled."
NotInitializedMsg == "cloud_storage_api is not initialized."
CancelledMsg == "Run was manually cancelled."
WriteDisabledMsg == "Remote write is not enabled for this cluster."
ReadDisabledMsg == "Remote read is not enabled for this cluster."
UploadFailedMsg == "Failed to upload to cloud storage."
ListFailedMsg == "Failed to list objects in cloud storage."
KeyNotListedMsg == "Uploaded key/payload could not be found in cloud storage item list."
NoFileMsg == "Could not download from cloud storage (no file was found in the bucket)."
DownloadFailedMsg == "Failed to download from cloud storage."
PayloadDiffersMsg == "Downloaded object differs from uploaded payload."
DeleteFailedMsg == "Failed to delete from cloud storage."
\* e.what() of an exception thrown by a storage-client call
ExceptionMsg == "exception"

\* self_test_result: info is the probe kind ("" for the single result of a
\* run() that starts no probe), timed says that duration was assigned.
self_test_result(info) ==
    [info |-> info, warning |-> NoMsg, error |-> NoMsg, timed |-> FALSE]

\* Object keys, as prefix and name.  self_test_prefix / uuid: a fresh uuid per
\* invocation.
self_test_prefix == "self-test/"
self_test_key(i) == <<self_test_prefix, i>>
NoKey == <<"none", 0>>

\* make_random_payload(): random alphanumeric content, here the content drawn
\* by invocation i, unlike what any other invocation draws.
make_random_payload(i) == <<"random", i>>
NoPayload == <<"nullopt", 0>>

\* ------------------------------------------------------- collaborators
\* The bucket: the objects that are not this engine's (one outside the
\* self-test prefix, one left under it) and the self-test objects, in the
\* order a listing gives them.
OtherKeys == {<<"data/", 0>>, <<self_test_prefix, 0>>}
KeyOrder ==
    <<<<"data/", 0>>, <<self_test_prefix, 0>>>>
        \o [i \in Runs |-> self_test_key(i)]
Absent == <<"absent", 0>>
OtherContent == <<"other", 0>>
Corrupted == <<"corrupted", 0>>
SizeOf(content) == IF content = OtherContent THEN 1 ELSE 4

\* The listing of a bucket b: its objects with their sizes, except those in
\* omit (an object a stale listing does not show yet).
RECURSIVE ListingFrom(_, _, _)
ListingFrom(b, omit, n) ==
    IF n > Len(KeyOrder) THEN <<>>
    ELSE LET k == KeyOrder[n]
             rest == ListingFrom(b, omit, n + 1)
         IN  IF b[k] = Absent \/ k \in omit THEN rest
             ELSE <<[key |-> k, size_bytes |-> SizeOf(b[k])]>> \o rest

\* cloud_storage::upload_result and download_result, plus a thrown exception.
\* A reply is an outcome and whether a healthy store would not give it.
Reply(outcome, fault) == [outcome |-> outcome, fault |-> fault]
UploadFailures == {"timedout", "failed", "cancelled", "exception"}
DownloadFailures == {"timedout", "failed", "notfound", "exception"}

\* upload_object and delete_object.
UploadReplies ==
    {Reply("success", FALSE)} \cup {Reply(o, TRUE) : o \in UploadFailures}

\* The prefix argument of list_objects when it is std::nullopt, and the
\* objects a listing restricted to a prefix leaves out.
NoPrefix == <<"nullopt", 0>>
OutsidePrefix(b, prefix) ==
    IF prefix = NoPrefix THEN {} ELSE {k \in DOMAIN b : k[1] # prefix}

\* list_objects with a prefix argument: the listing, a listing that misses the
\* caller's new object, an error outcome, or an exception.
ListReplies(b, key, prefix) ==
    {[kind |-> "listing",
      contents |-> ListingFrom(b, OutsidePrefix(b, prefix), 1),
      fault |-> FALSE],
     [kind |-> "fail", contents |-> <<>>, fault |-> TRUE],
     [kind |-> "exception", contents |-> <<>>, fault |-> TRUE]}
        \cup (IF b[key] = Absent THEN {}
              ELSE {[kind |-> "listing",
                     contents |->
                        ListingFrom(b, OutsidePrefix(b, prefix) \cup {key}, 1),
                     fault |-> TRUE]})

\* download_object of key: the object's bytes, other bytes, or a failure.
DownloadReplies(b, key) ==
    (IF b[key] = Absent
     THEN {[outcome |-> "notfound", bytes |-> NoPayload, fault |-> FALSE]}
     ELSE {[outcome |-> "success", bytes |-> b[key], fault |-> FALSE],
           [outcome |-> "success", bytes |-> Corrupted, fault |-> TRUE]})
        \cup {[outcome |-> o, bytes |-> NoPayload, fault |-> TRUE] :
                 o \in DownloadFailures}

\* The initial buckets: empty, or holding the objects that are not the engine's.
Buckets ==
    {[k \in OtherKeys \cup {self_test_key(i) : i \in Runs} |->
         IF k \in present THEN OtherContent ELSE Absent] :
       present \in {{}, OtherKeys}}

\* cloud_storage::remote::list_result when it holds an error outcome.
ListFail == [ok |-> FALSE, contents |-> <<>>]

\* What run() reads from config::shard_local_cfg() and the sharded remote.
Configs ==
    [enabled : BOOLEAN, initialized : BOOLEAN, read : BOOLEAN, write : BOOLEAN]
NoConfig ==
    [enabled |-> FALSE, initialized |-> FALSE, read |-> FALSE, write |-> FALSE]

\* -------------------------------------------------------------- state
VARIABLES
    _cancelled,             \* cloudcheck::_cancelled
    _opts,                  \* cloudcheck::_opts: the options of run() number _opts
    _remote_read_enabled,   \* cloudcheck::_remote_read_enabled
    _remote_write_enabled,  \* cloudcheck::_remote_write_enabled
    _gate,                  \* ss::gate: holders and whether close() was called
    _as,                    \* ss::abort_source: abort requested
    stop_pc,                \* stop(): "none", "waiting" (on the gate), "done"
    crashed,                \* an assertion failed: the process is gone
    pc,                     \* per run(): where its coroutine is suspended
    cfg_read,               \* per run(): the configuration values it read
    payload,                \* per run(): run_benchmarks' payload
    object_list,            \* per run(): run_benchmarks' object_list
    download_key,           \* per run(): run_benchmarks' download_key
    downloaded_object,      \* per run(): run_benchmarks' downloaded_object
    results,                \* per run(): the vector of results
    calls,                  \* per run(): the storage-client calls it made
    hist,                   \* per run(): what cancel() did around it
    bucket,                 \* the bucket: the content of each object
    faults,                 \* storage-client calls that failed so far
    cancels                 \* cancel() calls so far

vars ==
    <<_cancelled, _opts, _remote_read_enabled, _remote_write_enabled, _gate,
      _as, stop_pc, crashed, pc, cfg_read, payload, object_list, download_key,
      downloaded_object, results, calls, hist, bucket, faults, cancels>>

engine == <<_opts, _remote_read_enabled, _remote_write_enabled>>
locals == <<payload, object_list, download_key, downloaded_object>>
store == <<bucket, faults>>

Init ==
    /\ _cancelled = FALSE
    /\ _opts = 0
    /\ _remote_read_enabled = FALSE
    /\ _remote_write_enabled = FALSE
    /\ _gate = [count |-> 0, closed |-> FALSE]
    /\ _as = FALSE
    /\ stop_pc = "none"
    /\ crashed = FALSE
    /\ pc = [i \in Runs |-> "idle"]
    /\ cfg_read = [i \in Runs |-> NoConfig]
    /\ payload = [i \in Runs |-> NoPayload]
    /\ object_list = [i \in Runs |-> ListFail]
    /\ download_key = [i \in Runs |-> NoKey]
    /\ downloaded_object = [i \in Runs |-> NoPayload]
    /\ results = [i \in Runs |-> <<>>]
    /\ calls = [i \in Runs |-> <<>>]
    /\ hist = [i \in Runs |-> [stale |-> FALSE, cancel |-> FALSE]]
    /\ bucket \in Buckets
    /\ faults = 0
    /\ cancels = 0

InFlight(i) == pc[i] \notin {"idle", "done"}

\* ------------------------------------------------------------- probes
\* The outcome of a probe's precondition checks: call says that the storage
\* client is to be called, result is the record returned when it is not.
Skip(r) == [call |-> FALSE, result |-> r]
Proceed(r) == [call |-> TRUE, result |-> r]

\* verify_upload up to the call of upload_object.
verify_upload_pre(cancelled, write_enabled) ==
    LET result == self_test_result("upload")
    IN  IF cancelled
        THEN Skip([result EXCEPT !.warning = CancelledMsg])
        ELSE IF ~write_enabled
        THEN Skip([result EXCEPT !.error = WriteDisabledMsg])
        ELSE Proceed(result)

\* Mutant: an exception of upload_object leaves the record without error.
verify_upload_post_swallows(outcome) ==
    LET result == self_test_result("upload")
        err == CASE outcome \in {"success", "exception"} -> NoMsg
                 [] outcome \in {"timedout", "failed", "cancelled"} -> UploadFailedMsg
    IN  [result EXCEPT !.error = err, !.timed = TRUE]

\* verify_upload from the return of upload_object.
verify_upload_post(outcome) ==
    LET result == self_test_result("upload")
        err == CASE outcome = "success" -> NoMsg
                 [] outcome \in {"timedout", "failed", "cancelled"} -> UploadFailedMsg
                 [] outcome = "exception" -> ExceptionMsg
    IN  [result EXCEPT !.error = err, !.timed = TRUE]

\* run_benchmarks: is_uploaded.
is_uploaded_of(upload_test_result) ==
    upload_test_result.warning = NoMsg /\ upload_test_result.error = NoMsg

\* verify_list up to the call of list_objects.
verify_list_pre(cancelled, read_enabled) ==
    LET result == self_test_result("list")
    IN  IF cancelled
        THEN Skip([result EXCEPT !.warning = CancelledMsg])
        ELSE IF ~read_enabled
        THEN Skip([result EXCEPT !.error = ReadDisabledMsg])
        ELSE Proceed(result)

\* verify_list from the return of list_objects: the pair it returns.  The two
\* returns inside the try block leave before duration is assigned.
verify_list_post(out) ==
    LET result == self_test_result("list")
    IN  CASE out.kind = "listing" ->
               [list |-> [ok |-> TRUE, contents |-> out.contents],
                result |-> result]
          [] out.kind = "fail" ->
               [list |-> ListFail,
                result |-> [result EXCEPT !.error = ListFailedMsg]]
          [] out.kind = "exception" ->
               [list |-> ListFail,
                result |-> [result EXCEPT !.error = ExceptionMsg, !.timed = TRUE]]

\* Mutant: the search is made whether or not the upload succeeded.
check_listed_unconditional(is_uploaded, list, key, list_test_result) ==
    IF list.ok
       /\ ~(\E n \in 1 .. Len(list.contents) : list.contents[n].key = key)
    THEN [list_test_result EXCEPT !.error = KeyNotListedMsg]
    ELSE list_test_result

\* run_benchmarks: the search of the uploaded key in the listing.
check_listed(is_uploaded, list, key, list_test_result) ==
    IF is_uploaded /\ list.ok
       /\ ~(\E n \in 1 .. Len(list.contents) : list.contents[n].key = key)
    THEN [list_test_result EXCEPT !.error = KeyNotListedMsg]
    ELSE list_test_result

\* Mutant: the last smallest entry instead of the first.
min_element_last(contents) ==
    CHOOSE n \in 1 .. Len(contents) :
        /\ \A m \in 1 .. Len(contents) :
              contents[n].size_bytes <= contents[m].size_bytes
        /\ \A m \in (n + 1) .. Len(contents) :
              contents[m].size_bytes > contents[n].size_bytes

\* std::min_element with a.size_bytes < b.size_bytes: the first smallest.
min_element(contents) ==
    CHOOSE n \in 1 .. Len(contents) :
        /\ \A m \in 1 .. Len(contents) :
              contents[n].size_bytes <= contents[m].size_bytes
        /\ \A m \in 1 .. (n - 1) :
              contents[m].size_bytes > contents[n].size_bytes

\* run_benchmarks: get_min_object_key.
get_min_object_key(list) ==
    IF ~list.ok THEN NoKey
    ELSE IF list.contents = <<>> THEN NoKey
    ELSE list.contents[min_element(list.contents)].key

\* run_benchmarks: download_key.
select_download_key(is_uploaded, key, list) ==
    IF is_uploaded THEN key ELSE get_min_object_key(list)

\* verify_download up to the call of download_object.
verify_download_pre(cancelled, read_enabled, key) ==
    LET result == self_test_result("download")
    IN  IF cancelled
        THEN Skip([result EXCEPT !.warning = CancelledMsg])
        ELSE IF ~read_enabled
        THEN Skip([result EXCEPT !.error = ReadDisabledMsg])
        ELSE IF key = NoKey
        THEN Skip([result EXCEPT !.warning = NoFileMsg])
        ELSE Proceed(result)

\* verify_download from the return of download_object: the pair it returns.
verify_download_post(outcome, bytes) ==
    LET result == self_test_result("download")
    IN  CASE outcome = "success" ->
               [object |-> bytes, result |-> result]
          [] outcome \in {"timedout", "failed", "notfound"} ->
               [object |-> NoPayload,
                result |-> [result EXCEPT !.error = DownloadFailedMsg]]
          [] outcome = "exception" ->
               [object |-> NoPayload,
                result |-> [result EXCEPT !.error = ExceptionMsg, !.timed = TRUE]]

\* Mutant: the payload is compared even when nothing was downloaded.
check_payload_always(is_uploaded, downloaded, pl, download_test_result) ==
    IF is_uploaded /\ downloaded # pl
    THEN [download_test_result EXCEPT !.error = PayloadDiffersMsg]
    ELSE download_test_result

\* Mutant: the downloaded object is not compared.
check_payload_unchecked(is_uploaded, downloaded, pl, download_test_result) ==
    download_test_result

\* run_benchmarks: the comparison of the downloaded object with the payload.
check_payload(is_uploaded, downloaded, pl, download_test_result) ==
    IF is_uploaded /\ downloaded # NoPayload /\ downloaded # pl
    THEN [download_test_result EXCEPT !.error = PayloadDiffersMsg]
    ELSE download_test_result

\* Mutant: verify_delete without the test of _remote_write_enabled.
verify_delete_pre_unguarded(cancelled, write_enabled) ==
    LET result == self_test_result("delete")
    IN  IF cancelled
        THEN Skip([result EXCEPT !.warning = CancelledMsg])
        ELSE Proceed(result)

\* verify_delete up to the call of delete_object.
verify_delete_pre(cancelled, write_enabled) ==
    LET result == self_test_result("delete")
    IN  IF cancelled
        THEN Skip([result EXCEPT !.warning = CancelledMsg])
        ELSE IF ~write_enabled
        THEN Skip([result EXCEPT !.error = WriteDisabledMsg])
        ELSE Proceed(result)

\* Mutant: a cancelled delete_object is taken for a success.
verify_delete_post_cancelled_ok(outcome) ==
    LET result == self_test_result("delete")
        err == CASE outcome \in {"success", "cancelled"} -> NoMsg
                 [] outcome \in {"timedout", "failed"} -> DeleteFailedMsg
                 [] outcome = "exception" -> ExceptionMsg
    IN  [result EXCEPT !.error = err, !.timed = TRUE]

\* verify_delete from the return of delete_object.
verify_delete_post(outcome) ==
    LET result == self_test_result("delete")
        err == CASE outcome = "success" -> NoMsg
                 [] outcome \in {"timedout", "failed", "cancelled"} -> DeleteFailedMsg
                 [] outcome = "exception" -> ExceptionMsg
    IN  [result EXCEPT !.error = err, !.timed = TRUE]

\* ------------------------------------------------------------ actions
\* A storage-client call as the client sees it: the operation and the key (for
\* list_objects, the prefix) it is given.
Call(op, key) == [op |-> op, key |-> key, outcome |-> "pending"]
\* The call log once the call that is in progress has answered.
Answered(log, outcome) == [log EXCEPT ![Len(log)].outcome = outcome]

\* A reply that is a fault is drawn only while the bound allows it.
Allowed(reply) == reply.fault => faults < MaxFaults
Count(reply) == IF reply.fault THEN faults + 1 ELSE faults

\* ss::gate: hold() and the holder's destructor; close() resolves its future
\* when the last holder leaves.
\* Mutant: run() takes no holder of the gate.
gate_enter_missing(g) == g
gate_enter(g) == [g EXCEPT !.count = @ + 1]
gate_leave(g) == [g EXCEPT !.count = @ - 1]
close_resolved(g, s) == IF s = "waiting" /\ g.count = 0 THEN "done" ELSE s

\* Mutant: run() leaves _cancelled as it finds it.
run_cancelled_kept == _cancelled
\* run(): _cancelled = false.
run_cancelled == FALSE

\* Mutant: run() does not test the gate.
run_rejected_never(g) == FALSE
\* run(): the test of the gate.
run_rejected(g) == g.closed

\* run(): the tests of the configuration and of the storage client.
run_disabled(cfg) == ~cfg.enabled
\* Mutant: run() does not test local_is_initialized().
run_uninitialized_ignored(cfg) == FALSE
run_uninitialized(cfg) == ~cfg.initialized

\* run(): the single result of an invocation that starts no probe.
single_result(msg) == <<[self_test_result("") EXCEPT !.warning = msg]>>

\* run_benchmarks: payload.
make_payload(write_enabled, random) ==
    IF write_enabled THEN random ELSE NoPayload

\* run() up to co_await ss::with_scheduling_group: the call number i.
Run(i) ==
    /\ ~crashed
    /\ pc[i] = "idle"
    /\ \A j \in Runs : j < i => pc[j] # "idle"
    /\ _cancelled' = run_cancelled
    /\ _opts' = i
    /\ hist' = [hist EXCEPT ![i] = [stale |-> _cancelled, cancel |-> FALSE]]
    /\ UNCHANGED <<_as, stop_pc, crashed, locals, calls, store, cancels>>
    /\ IF run_rejected(_gate)
       THEN /\ results' = [results EXCEPT ![i] = single_result(GateClosedMsg)]
            /\ pc' = [pc EXCEPT ![i] = "done"]
            /\ UNCHANGED <<_remote_read_enabled, _remote_write_enabled, _gate,
                           cfg_read>>
       ELSE \E cfg \in Configs :
            IF run_disabled(cfg)
            THEN /\ results' = [results EXCEPT ![i] = single_result(NotEnabledMsg)]
                 /\ pc' = [pc EXCEPT ![i] = "done"]
                 /\ cfg_read' = [cfg_read EXCEPT ![i] =
                                    [NoConfig EXCEPT !.enabled = cfg.enabled]]
                 /\ UNCHANGED <<_remote_read_enabled, _remote_write_enabled,
                                _gate>>
            ELSE IF run_uninitialized(cfg)
            THEN /\ results' =
                        [results EXCEPT ![i] = single_result(NotInitializedMsg)]
                 /\ pc' = [pc EXCEPT ![i] = "done"]
                 /\ cfg_read' = [cfg_read EXCEPT ![i] =
                                    [NoConfig EXCEPT
                                        !.enabled = cfg.enabled,
                                        !.initialized = cfg.initialized]]
                 /\ UNCHANGED <<_remote_read_enabled, _remote_write_enabled,
                                _gate>>
            ELSE /\ _remote_read_enabled' = cfg.read
                 /\ _remote_write_enabled' = cfg.write
                 /\ _gate' = gate_enter(_gate)
                 /\ cfg_read' = [cfg_read EXCEPT ![i] = cfg]
                 /\ pc' = [pc EXCEPT ![i] = "sched"]
                 /\ UNCHANGED results

\* Mutant: the record of a probe that returns at once is not pushed.
Begin_drops_skipped(i, pre, call, at_call, at_skip, skipped) ==
    IF pre.call
    THEN /\ calls' = [calls EXCEPT ![i] = Append(@, call)]
         /\ pc' = [pc EXCEPT ![i] = at_call]
         /\ UNCHANGED results
    ELSE /\ pc' = [pc EXCEPT ![i] = at_skip]
         /\ UNCHANGED <<results, calls>>

\* A probe whose precondition fails returns its record at once; otherwise the
\* coroutine is suspended in the storage-client call.
Begin(i, pre, call, at_call, at_skip, skipped) ==
    IF pre.call
    THEN /\ calls' = [calls EXCEPT ![i] = Append(@, call)]
         /\ pc' = [pc EXCEPT ![i] = at_call]
         /\ UNCHANGED results
    ELSE /\ results' = [results EXCEPT ![i] = Append(@, skipped)]
         /\ pc' = [pc EXCEPT ![i] = at_skip]
         /\ UNCHANGED calls

\* with_scheduling_group runs run_benchmarks: the locals, then verify_upload
\* up to upload_object.
UploadBegin(i) ==
    /\ ~crashed
    /\ pc[i] = "sched"
    /\ payload' = [payload EXCEPT ![i] =
          make_payload(_remote_write_enabled, make_random_payload(i))]
    /\ LET pre == verify_upload_pre(_cancelled, _remote_write_enabled)
       IN  Begin(i, pre, Call("upload", self_test_key(i)), "upload_call", "list",
                 pre.result)
    /\ UNCHANGED <<_cancelled, engine, _gate, _as, stop_pc, crashed, cfg_read,
                   object_list, download_key, downloaded_object, hist, store,
                   cancels>>

\* upload_object returns; run_benchmarks pushes the upload result.
UploadReturn(i) ==
    /\ ~crashed
    /\ pc[i] = "upload_call"
    /\ \E reply \in UploadReplies :
          /\ Allowed(reply)
          /\ faults' = Count(reply)
          /\ bucket' = IF reply.outcome = "success"
                       THEN [bucket EXCEPT ![self_test_key(i)] = payload[i]]
                       ELSE bucket
          /\ results' = [results EXCEPT ![i] =
                            Append(@, verify_upload_post(reply.outcome))]
          /\ calls' = [calls EXCEPT ![i] = Answered(@, reply.outcome)]
    /\ pc' = [pc EXCEPT ![i] = "list"]
    /\ UNCHANGED <<_cancelled, engine, _gate, _as, stop_pc, crashed, cfg_read,
                   locals, hist, cancels>>

IsUploaded(i) == is_uploaded_of(results[i][1])

\* The prefix verify_list hands to list_objects.
list_prefix_argument(prefix) == NoPrefix

\* verify_list up to list_objects; when it returns at once, run_benchmarks
\* goes on with the failed listing.
ListBegin(i) ==
    /\ ~crashed
    /\ pc[i] = "list"
    /\ LET pre == verify_list_pre(_cancelled, _remote_read_enabled)
       IN  Begin(i, pre, Call("list", list_prefix_argument(self_test_prefix)),
                 "list_call", "download",
                 check_listed(IsUploaded(i), ListFail, self_test_key(i),
                              pre.result))
    /\ UNCHANGED <<_cancelled, engine, _gate, _as, stop_pc, crashed, cfg_read,
                   locals, hist, store, cancels>>

\* list_objects returns; run_benchmarks checks the listing and pushes the list
\* result.
ListReturn(i) ==
    /\ ~crashed
    /\ pc[i] = "list_call"
    /\ \E reply \in ListReplies(bucket, self_test_key(i),
                                 calls[i][Len(calls[i])].key) :
          LET pair == verify_list_post(reply)
          IN  /\ Allowed(reply)
              /\ calls' = [calls EXCEPT ![i] = Answered(@, reply.kind)]
              /\ faults' = Count(reply)
              /\ object_list' = [object_list EXCEPT ![i] = pair.list]
              /\ results' = [results EXCEPT ![i] =
                    Append(@, check_listed(IsUploaded(i), pair.list,
                                           self_test_key(i), pair.result))]
    /\ pc' = [pc EXCEPT ![i] = "download"]
    /\ UNCHANGED <<_cancelled, engine, _gate, _as, stop_pc, crashed, cfg_read,
                   payload, download_key, downloaded_object, hist, bucket,
                   cancels>>

\* run_benchmarks picks download_key; verify_download up to download_object.
DownloadBegin(i) ==
    /\ ~crashed
    /\ pc[i] = "download"
    /\ LET key == select_download_key(IsUploaded(i), self_test_key(i),
                                      object_list[i])
           pre == verify_download_pre(_cancelled, _remote_read_enabled, key)
       IN  /\ download_key' = [download_key EXCEPT ![i] = key]
           /\ Begin(i, pre, Call("download", key), "download_call", "delete",
                    check_payload(IsUploaded(i), NoPayload, payload[i],
                                  pre.result))
    /\ UNCHANGED <<_cancelled, engine, _gate, _as, stop_pc, crashed, cfg_read,
                   payload, object_list, downloaded_object, hist, store,
                   cancels>>

\* download_object returns; run_benchmarks compares the payloads and pushes
\* the download result.
DownloadReturn(i) ==
    /\ ~crashed
    /\ pc[i] = "download_call"
    /\ \E reply \in DownloadReplies(bucket, download_key[i]) :
          LET pair == verify_download_post(reply.outcome, reply.bytes)
          IN  /\ Allowed(reply)
              /\ faults' = Count(reply)
              /\ calls' = [calls EXCEPT ![i] = Answered(@, reply.outcome)]
              /\ downloaded_object' =
                    [downloaded_object EXCEPT ![i] = pair.object]
              /\ results' = [results EXCEPT ![i] =
                    Append(@, check_payload(IsUploaded(i), pair.object,
                                            payload[i], pair.result))]
    /\ pc' = [pc EXCEPT ![i] = "delete"]
    /\ UNCHANGED <<_cancelled, engine, _gate, _as, stop_pc, crashed, cfg_read,
                   payload, object_list, download_key, hist, bucket, cancels>>

\* run_benchmarks and run() return: the coroutine frames, with the locals and
\* the gate holder, are destroyed.
Return(i) ==
    /\ _gate' = gate_leave(_gate)
    /\ stop_pc' = close_resolved(gate_leave(_gate), stop_pc)
    /\ payload' = [payload EXCEPT ![i] = NoPayload]
    /\ object_list' = [object_list EXCEPT ![i] = ListFail]
    /\ download_key' = [download_key EXCEPT ![i] = NoKey]
    /\ downloaded_object' = [downloaded_object EXCEPT ![i] = NoPayload]

\* Mutant: delete_object is called only after a successful upload.
DeleteBegin_if_uploaded(i) ==
    /\ ~crashed
    /\ pc[i] = "delete"
    /\ LET pre == verify_delete_pre(_cancelled,
                                    _remote_write_enabled /\ IsUploaded(i))
       IN  /\ Begin(i, pre, Call("delete", self_test_key(i)), "delete_call",
                    "done", pre.result)
           /\ IF pre.call THEN UNCHANGED <<_gate, stop_pc, locals>>
              ELSE Return(i)
    /\ UNCHANGED <<_cancelled, engine, _as, crashed, cfg_read, hist, store,
                   cancels>>

\* verify_delete up to delete_object; when it returns at once, run() returns.
DeleteBegin(i) ==
    /\ ~crashed
    /\ pc[i] = "delete"
    /\ LET pre == verify_delete_pre(_cancelled, _remote_write_enabled)
       IN  /\ Begin(i, pre, Call("delete", self_test_key(i)), "delete_call",
                    "done", pre.result)
           /\ IF pre.call THEN UNCHANGED <<_gate, stop_pc, locals>>
              ELSE Return(i)
    /\ UNCHANGED <<_cancelled, engine, _as, crashed, cfg_read, hist, store,
                   cancels>>

\* delete_object returns; run_benchmarks and run() return.
DeleteReturn(i) ==
    /\ ~crashed
    /\ pc[i] = "delete_call"
    /\ \E reply \in UploadReplies :
          /\ Allowed(reply)
          /\ faults' = Count(reply)
          /\ bucket' = IF reply.outcome = "success"
                       THEN [bucket EXCEPT ![self_test_key(i)] = Absent]
                       ELSE bucket
          /\ results' = [results EXCEPT ![i] =
                            Append(@, verify_delete_post(reply.outcome))]
          /\ calls' = [calls EXCEPT ![i] = Answered(@, reply.outcome)]
    /\ pc' = [pc EXCEPT ![i] = "done"]
    /\ Return(i)
    /\ UNCHANGED <<_cancelled, engine, _as, crashed, cfg_read, hist, cancels>>

\* cancel().
Cancel ==
    /\ ~crashed
    /\ cancels < MaxCancels
    /\ cancels' = cancels + 1
    /\ _cancelled' = TRUE
    /\ hist' = [i \in Runs |->
                   IF InFlight(i) THEN [hist[i] EXCEPT !.cancel = TRUE]
                   ELSE hist[i]]
    /\ UNCHANGED <<engine, _gate, _as, stop_pc, crashed, pc, cfg_read, locals,
                   results, calls, store>>

\* ss::gate::close() asserts that the gate was not closed before.
close_asserts(g) == ~g.closed

\* Mutant: stop() closes the gate without requesting abort.
stop_abort_skipped == _as
\* stop(): _as.request_abort().
stop_abort == TRUE

\* stop(): request_abort, then close the gate.  A failed assertion aborts the
\* process: the engine and every coroutine frame are gone, the bucket stays.
Stop ==
    /\ ~crashed
    /\ IF close_asserts(_gate)
       THEN /\ _as' = stop_abort
            /\ _gate' = [_gate EXCEPT !.closed = TRUE]
            /\ stop_pc' = close_resolved(_gate, "waiting")
            /\ UNCHANGED <<_cancelled, engine, crashed, pc, cfg_read, locals,
                           results, calls, hist, cancels>>
       ELSE /\ crashed' = TRUE
            /\ _cancelled' = FALSE
            /\ _opts' = 0
            /\ _remote_read_enabled' = FALSE
            /\ _remote_write_enabled' = FALSE
            /\ _gate' = [count |-> 0, closed |-> FALSE]
            /\ _as' = FALSE
            /\ stop_pc' = "none"
            /\ pc' = [i \in Runs |-> "idle"]
            /\ cfg_read' = [i \in Runs |-> NoConfig]
            /\ payload' = [i \in Runs |-> NoPayload]
            /\ object_list' = [i \in Runs |-> ListFail]
            /\ download_key' = [i \in Runs |-> NoKey]
            /\ downloaded_object' = [i \in Runs |-> NoPayload]
            /\ results' = [i \in Runs |-> <<>>]
            /\ calls' = [i \in Runs |-> <<>>]
            /\ hist' = [i \in Runs |-> [stale |-> FALSE, cancel |-> FALSE]]
            /\ cancels' = 0
    /\ UNCHANGED store

Next ==
    \/ \E i \in Runs :
          \/ Run(i)
          \/ UploadBegin(i)
          \/ UploadReturn(i)
          \/ ListBegin(i)
          \/ ListReturn(i)
          \/ DownloadBegin(i)
          \/ DownloadReturn(i)
          \/ DeleteBegin(i)
          \/ DeleteReturn(i)
    \/ Cancel
    \/ Stop

Spec == Init /\ [][Next]_vars

\* ------------------------------------------------------------- claims
Started(i) == pc[i] # "idle"
Kinds(rs) == [k \in 1 .. Len(rs) |-> rs[k].info]
ProbeKinds == <<"upload", "list", "download", "delete">>
WarningOnly(r) == r.warning # NoMsg /\ r.error = NoMsg
\* The records run() number i has so far that are the cancelled warning.
CancelledRecords(i) ==
    {k \in 1 .. Len(results[i]) : results[i][k].warning = CancelledMsg}
\* The listing run() number i holds shows its self-test key.
KeyListed(i) ==
    \E n \in 1 .. Len(object_list[i].contents) :
        object_list[i].contents[n].key = self_test_key(i)
\* A step in which run() number i starts a probe: its precondition checks.
ProbeBegins(i) ==
    /\ pc[i] \in {"sched", "list", "download", "delete"}
    /\ pc'[i] # pc[i]
    /\ ~crashed'
\* The record a probe of run() number i returned at once in this step.
Pushed(i) == results'[i][Len(results'[i])]
ReturnedAtOnce(i) ==
    /\ Len(results'[i]) = Len(results[i]) + 1
    /\ calls'[i] = calls[i]

\* C1: a run() called while an earlier run() is in flight and stop() was not
\* called returns one result that carries a warning and makes no storage-client
\* call, so that at most one invocation runs probes at a time.  (Calls are
\* numbered in the order they are made: j < i says that j was called first.)
C1_SecondRunRejected ==
    \A i, j \in Runs :
        (j < i /\ InFlight(j) /\ Started(i) /\ ~_gate.closed)
            => /\ pc[i] = "done"
               /\ Len(results[i]) = 1
               /\ results[i][1].warning # NoMsg
               /\ calls[i] = <<>>

\* C2: a run() that passes the tests of the gate, of the configuration and of
\* the client returns four records: upload, list, download, delete, in this
\* order; and while it is suspended in the storage-client call of a probe, the
\* records of the probes before it, and no other, have been produced.
C2_FourRecordsInOrder ==
    \A i \in Runs :
        (Started(i) /\ cfg_read[i].enabled /\ cfg_read[i].initialized)
            => /\ Kinds(results[i]) = SubSeq(ProbeKinds, 1, Len(results[i]))
               /\ pc[i] = "done" => Len(results[i]) = 4
               /\ pc[i] \in {"sched", "upload_call"} => Len(results[i]) = 0
               /\ pc[i] \in {"list", "list_call"} => Len(results[i]) = 1
               /\ pc[i] \in {"download", "download_call"} => Len(results[i]) = 2
               /\ pc[i] \in {"delete", "delete_call"} => Len(results[i]) = 3
               /\ \A op \in {"upload", "list", "download", "delete"} :
                     pc[i] = op \o "_call"
                        => /\ calls[i] # <<>>
                           /\ calls[i][Len(calls[i])].op = op

\* C2 witness: a run() returned its four records although its upload threw, its
\* download failed and cancel() came before its delete.
C2_Witness ==
    \E i \in Runs :
        /\ pc[i] = "done"
        /\ Len(results[i]) = 4
        /\ results[i][1].error = ExceptionMsg
        /\ results[i][3].error = DownloadFailedMsg
        /\ results[i][4].warning = CancelledMsg

\* C3: once cancel() was issued during an invocation, every probe of it that
\* starts afterwards returns a warning-only record and calls no storage client.
C3_CancelSkipsLaterProbes ==
    [][\A i \in Runs :
          (hist[i].cancel /\ ProbeBegins(i))
              => ReturnedAtOnce(i) /\ WarningOnly(Pushed(i))]_vars

\* C4: when the upload probe succeeded and the download call reports success,
\* the download record has no error exactly when the downloaded bytes are the
\* payload, and otherwise its error is the payload-mismatch message.
C4_DownloadComparesPayload ==
    \A i \in Runs :
        (pc[i] \in {"delete", "delete_call"} /\ IsUploaded(i)
         /\ downloaded_object[i] # NoPayload)
            => /\ results[i][3].error = NoMsg
                    <=> downloaded_object[i] = payload[i]
               /\ downloaded_object[i] # payload[i]
                    => results[i][3].error = PayloadDiffersMsg

\* C4 witness: after a successful upload the download succeeded with other
\* bytes than the payload.
C4_Witness ==
    \E i \in Runs :
        /\ pc[i] = "delete"
        /\ IsUploaded(i)
        /\ downloaded_object[i] = Corrupted
        /\ payload[i] = make_random_payload(i)
        /\ results[i][3].error = PayloadDiffersMsg

\* C5: when the upload probe succeeded and list_objects returned a listing, the
\* list record carries the consistency error exactly when the self-test key is
\* not among the entries; otherwise the record never carries it.
C5_ListChecksUploadedKey ==
    \A i \in Runs :
        pc[i] \in {"download", "download_call", "delete", "delete_call"}
            => IF IsUploaded(i) /\ object_list[i].ok
               THEN results[i][2].error = KeyNotListedMsg <=> ~KeyListed(i)
               ELSE results[i][2].error # KeyNotListedMsg

\* C5 witness: after a successful upload a listing came back without the key.
C5_Witness ==
    \E i \in Runs :
        /\ pc[i] = "download"
        /\ IsUploaded(i)
        /\ object_list[i].ok
        /\ object_list[i].contents # <<>>
        /\ ~KeyListed(i)
        /\ results[i][2].error = KeyNotListedMsg

\* C6: a probe that starts when no cancellation is pending returns at once a
\* record with error set, and calls no storage client, if it is the upload or
\* the delete probe and remote write is disabled, or the list or the download
\* probe and remote read is disabled.
C6_DisabledProbesFail ==
    [][\A i \in Runs :
          (ProbeBegins(i) /\ ~_cancelled
           /\ IF pc[i] \in {"sched", "delete"}
              THEN ~_remote_write_enabled ELSE ~_remote_read_enabled)
              => ReturnedAtOnce(i) /\ Pushed(i).error # NoMsg]_vars

\* C6 witness: with remote read and write disabled, a run() returned four error
\* records and called no storage client.
C6_Witness ==
    \E i \in Runs :
        /\ pc[i] = "done"
        /\ Len(results[i]) = 4
        /\ results[i][1].error = WriteDisabledMsg
        /\ results[i][2].error = ReadDisabledMsg
        /\ results[i][3].error = ReadDisabledMsg
        /\ results[i][4].error = WriteDisabledMsg
        /\ calls[i] = <<>>

\* C7: stop() has requested abort and closed the gate whenever it waits or has
\* completed; it has not completed while a run() that entered the gate is in
\* flight, and it waits only as long as one is.
C7_StopWaitsForRuns ==
    /\ _gate.count = Cardinality({i \in Runs : InFlight(i)})
    /\ stop_pc # "none" => _as /\ _gate.closed
    /\ stop_pc = "done" => \A i \in Runs : ~InFlight(i)
    /\ stop_pc = "waiting" => \E i \in Runs : InFlight(i)

\* C7 witness: stop() waits while a run() is suspended in download_object.
C7_Witness ==
    /\ stop_pc = "waiting"
    /\ \E i \in Runs : pc[i] = "download_call"

C9_DisabledRunsNoProbe ==
    \A i \in Runs :
        (Started(i) /\ (~cfg_read[i].enabled \/ ~cfg_read[i].initialized))
            => /\ pc[i] = "done"
               /\ Len(results[i]) = 1
               /\ WarningOnly(results[i][1])
               /\ calls[i] = <<>>

\* C9 witness: one run() found cloud storage disabled and another one found
\* the storage client not initialized.
C9_Witness ==
    \E i, j \in Runs :
        /\ results[i] = single_result(NotEnabledMsg)
        /\ results[j] = single_result(NotInitializedMsg)
        /\ cfg_read[j].enabled

\* C10: a probe of an invocation returns the cancelled warning only if cancel()
\* was called after that invocation's run() started: a cancel() made before
\* it, which run() resets, causes none.
C10_StaleCancelIgnored ==
    \A i \in Runs : CancelledRecords(i) # {} => hist[i].cancel

\* C10 witness: run() was called with _cancelled still set and its four probes
\* returned without the cancelled warning.
C10_Witness ==
    \E i \in Runs :
        /\ hist[i].stale
        /\ pc[i] = "done"
        /\ Len(results[i]) = 4
        /\ CancelledRecords(i) = {}

\* The calls run() number i made of one storage-client operation.
CallsOf(i, op) == {n \in 1 .. Len(calls[i]) : calls[i][n].op = op}
\* The call of run() number i that is in progress or was the last to answer.
LastCall(i) == calls[i][Len(calls[i])]
\* A step in which run() number i starts its download probe.
DownloadBegins(i) == pc[i] = "download" /\ pc'[i] # "download" /\ ~crashed'

\* C11: the remote-read and remote-write values a probe of an invocation
\* consults are the values that invocation captured from the configuration:
\* nothing that happens after the capture, another run() included, changes what
\* its remaining probes see.
C11_CapturedFlagsStable ==
    [][\A i \in Runs :
          ProbeBegins(i)
              => /\ _remote_read_enabled = cfg_read[i].read
                 /\ _remote_write_enabled = cfg_read[i].write]_vars

\* C12: the list request of the list probe carries the self-test prefix, and
\* the listing the probe returns holds only objects under that prefix.
C12_ListUnderPrefix ==
    \A i \in Runs :
        /\ \A n \in CallsOf(i, "list") : calls[i][n].key = self_test_prefix
        /\ object_list[i].ok
              => \A n \in 1 .. Len(object_list[i].contents) :
                    object_list[i].contents[n].key[1] = self_test_prefix

\* The entries of smallest size in a listing, and the download key the
\* selection policy asks for.
MinEntries(c) ==
    {n \in 1 .. Len(c) : \A m \in 1 .. Len(c) : c[n].size_bytes <= c[m].size_bytes}
ExpectedDownloadKey(i) ==
    IF IsUploaded(i) THEN self_test_key(i)
    ELSE IF object_list[i].ok /\ object_list[i].contents # <<>>
    THEN LET c == object_list[i].contents
             first == CHOOSE n \in MinEntries(c) : \A m \in MinEntries(c) : n <= m
         IN  c[first].key
    ELSE NoKey

\* C13: the key given to the download probe is the self-test key when the
\* upload probe succeeded; otherwise the key of the first entry of smallest
\* size of the listing, when one was obtained and is not empty; otherwise
\* absent.  The storage client is asked for that key; and with the key absent,
\* no cancellation pending and remote read enabled, the probe returns at once
\* a warning-only record.
C13_DownloadKeySelection ==
    [][\A i \in Runs :
          DownloadBegins(i)
              => /\ download_key'[i] = ExpectedDownloadKey(i)
                 /\ pc'[i] = "download_call"
                       => /\ calls'[i] # calls[i]
                          /\ LastCall(i)'.op = "download"
                          /\ LastCall(i)'.key = ExpectedDownloadKey(i)
                 /\ (ExpectedDownloadKey(i) = NoKey /\ ~_cancelled
                     /\ _remote_read_enabled)
                       => /\ ReturnedAtOnce(i)
                          /\ WarningOnly(Pushed(i))
                          /\ Pushed(i).warning = NoFileMsg]_vars

\* C13 witness: the upload failed, the listing came back with two entries of
\* the same smallest size, and the download asks for the first of them.
C13_Witness ==
    \E i \in Runs :
        /\ pc[i] = "download_call"
        /\ ~IsUploaded(i)
        /\ object_list[i].ok
        /\ Cardinality(MinEntries(object_list[i].contents)) = 2
        /\ download_key[i] = object_list[i].contents[1].key
        /\ LastCall(i).key = download_key[i]

\* C14: the record of a list or download probe that called the storage client
\* has its duration assigned, whether the call succeeded, reported a failure
\* or threw.
C14_DurationOnEveryPath ==
    \A i \in Runs :
        \A k \in 1 .. Len(results[i]) :
            (/\ results[i][k].info \in {"list", "download"}
             /\ \E n \in CallsOf(i, results[i][k].info) :
                   calls[i][n].outcome # "pending")
                => results[i][k].timed

\* The place of a probe's record in the results of an invocation.
RecordOf(op) ==
    CASE op = "upload" -> 1 [] op = "list" -> 2 [] op = "download" -> 3
      [] op = "delete" -> 4
\* The outcome of the call of op that run() number i made, once the probe's
\* record was produced; "none" without such a call.
OutcomeOf(i, op) ==
    IF Len(results[i]) < RecordOf(op) \/ CallsOf(i, op) = {} THEN "none"
    ELSE calls[i][CHOOSE n \in CallsOf(i, op) : TRUE].outcome
\* run() number i made the call of op, it answered with outcome o, and the
\* probe's record was produced.
AnsweredWith(i, op, o) == OutcomeOf(i, op) = o
FailedMsgOf(op) ==
    CASE op = "upload" -> UploadFailedMsg
      [] op = "download" -> DownloadFailedMsg
      [] op = "delete" -> DeleteFailedMsg

\* C15: for the upload, download and delete probes that called the storage
\* client: timed-out, failed and cancelled (for download: not-found) outcomes
\* all give the probe's one failure message; no error is left unset unless the
\* call returned success; a success sets no error in the probe (the download
\* record may then get the payload-mismatch error from the comparison of C4);
\* and none of these outcomes sets warning.
C15_OutcomeMapsToError ==
    \A i \in Runs :
        \A op \in {"upload", "download", "delete"} :
            LET o == OutcomeOf(i, op)
            IN  o # "none"
                    => LET r == results[i][RecordOf(op)]
                       IN  /\ r.warning = NoMsg
                           /\ r.error = NoMsg => o = "success"
                           /\ o = "success"
                                 => r.error \in
                                       IF op = "download"
                                       THEN {NoMsg, PayloadDiffersMsg}
                                       ELSE {NoMsg}
                           /\ o \in {"timedout", "failed", "cancelled", "notfound"}
                                 => r.error = FailedMsgOf(op)

\* C15 witness: in one invocation the upload timed out, the download found no
\* object and the delete succeeded.
C15_Witness ==
    \E i \in Runs :
        /\ pc[i] = "done"
        /\ AnsweredWith(i, "upload", "timedout")
        /\ AnsweredWith(i, "download", "notfound")
        /\ AnsweredWith(i, "delete", "success")
        /\ results[i][1].error = UploadFailedMsg
        /\ results[i][3].error = DownloadFailedMsg
        /\ results[i][4].error = NoMsg

\* C16: when the storage-client call of a probe throws, the probe's record
\* carries the exception's message as error; the upload then counts as not
\* succeeded (no consistency error and no payload-mismatch error follows), the
\* list probe hands on the failed listing, the download probe hands on no
\* object; and the invocation goes on with the later probes and returns its
\* four records.
C16_ExceptionBecomesError ==
    \A i \in Runs :
        /\ \A op \in {"upload", "list", "download", "delete"} :
              AnsweredWith(i, op, "exception")
                  => /\ results[i][RecordOf(op)].error = ExceptionMsg
                     /\ results[i][RecordOf(op)].warning = NoMsg
                     /\ pc[i] \in {"list", "list_call", "download", "download_call",
                                   "delete", "delete_call", "done"}
                     /\ pc[i] = "done" => Len(results[i]) = 4
        /\ AnsweredWith(i, "upload", "exception")
              => /\ ~IsUploaded(i)
                 /\ \A k \in 2 .. Len(results[i]) :
                       results[i][k].error \notin {KeyNotListedMsg, PayloadDiffersMsg}
        /\ (AnsweredWith(i, "list", "exception")
            /\ pc[i] \in {"download", "download_call", "delete", "delete_call"})
              => object_list[i] = ListFail
        /\ (AnsweredWith(i, "download", "exception")
            /\ pc[i] \in {"delete", "delete_call"})
              => downloaded_object[i] = NoPayload

\* C16 witness: upload_object and list_objects both threw, and the invocation
\* still ran its download probe and called delete_object.
C16_Witness ==
    \E i \in Runs :
        /\ pc[i] = "done"
        /\ AnsweredWith(i, "upload", "exception")
        /\ AnsweredWith(i, "list", "exception")
        /\ results[i][3].warning = NoFileMsg
        /\ AnsweredWith(i, "delete", "success")
        /\ Len(results[i]) = 4

\* C17: no record of any invocation has both warning and error set, the list
\* record after the search of the uploaded key and the download record after
\* the comparison of the payload included.
C17_WarningErrorDisjoint ==
    \A i \in Runs :
        \A k \in 1 .. Len(results[i]) :
            ~(results[i][k].warning # NoMsg /\ results[i][k].error # NoMsg)

\* C17 witness: after a successful upload, cancel() made the list and the
\* download probes return the cancelled warning, which the search and the
\* comparison left without error.
C17_Witness ==
    \E i \in Runs :
        /\ Len(results[i]) = 4
        /\ IsUploaded(i)
        /\ WarningOnly(results[i][2])
        /\ WarningOnly(results[i][3])

\* C18: a delete probe that starts with no cancellation pending and remote
\* write enabled calls delete_object with the invocation's self-test key,
\* whatever the upload, list and download probes returned.
C18_DeleteAlwaysAttempted ==
    [][\A i \in Runs :
          (pc[i] = "delete" /\ pc'[i] # "delete" /\ ~crashed'
           /\ ~_cancelled /\ _remote_write_enabled)
              => /\ pc'[i] = "delete_call"
                 /\ calls'[i] =
                       Append(calls[i], Call("delete", self_test_key(i)))
                 /\ results'[i] = results[i]]_vars

\* C18 witness: the upload and the listing failed, nothing was downloaded, and
\* delete_object is called with the self-test key.
C18_Witness ==
    \E i \in Runs :
        /\ pc[i] = "delete_call"
        /\ AnsweredWith(i, "upload", "failed")
        /\ AnsweredWith(i, "list", "fail")
        /\ CallsOf(i, "download") = {}
        /\ LastCall(i) = Call("delete", self_test_key(i))

\* C19: an invocation whose upload_object returned success calls delete_object
\* for the same key before it returns, whenever cancel() comes.
C19_UploadedObjectDeleted ==
    \A i \in Runs :
        (pc[i] = "done" /\ AnsweredWith(i, "upload", "success"))
            => \E n \in CallsOf(i, "delete") : calls[i][n].key = self_test_key(i)

\* C20: a run() that is rejected at the gate while an invocation is in flight
\* leaves _cancelled and _opts as they are.
C20_RejectedRunHasNoEffect ==
    [][\A i \in Runs :
          (/\ pc[i] = "idle"
           /\ pc'[i] = "done"
           /\ results'[i] = single_result(GateClosedMsg)
           /\ \E j \in Runs : InFlight(j))
              => /\ _cancelled' = _cancelled
                 /\ _opts' = _opts]_vars

\* C21: a run() called after stop() was called returns one record that carries
\* the gate-closed warning, whatever the configuration holds; it takes no
\* holder of the gate, and it calls no storage client, then or later.
C21_RunAfterStopRejected ==
    [][\A i \in Runs :
          /\ (pc[i] = "idle" /\ pc'[i] # "idle" /\ stop_pc # "none")
                => /\ pc'[i] = "done"
                   /\ results'[i] = single_result(GateClosedMsg)
                   /\ calls'[i] = <<>>
                   /\ _gate' = _gate
                   /\ stop_pc' = stop_pc
                   /\ bucket' = bucket
          /\ (results[i] = single_result(GateClosedMsg) /\ ~crashed')
                => /\ pc'[i] = "done"
                   /\ results'[i] = results[i]
                   /\ calls'[i] = <<>>]_vars

\* C21 witness: stop() waits for an invocation in flight, and a run() called
\* meanwhile has returned the gate-closed warning without entering the gate.
C21_Witness ==
    \E i, j \in Runs :
        /\ stop_pc = "waiting"
        /\ InFlight(j)
        /\ pc[i] = "done"
        /\ results[i] = single_result(GateClosedMsg)
        /\ calls[i] = <<>>
        /\ _gate.count = 1

====
